---- MODULE Spec2Model ----
(***************************************************************************)
(* LG TV controller (src/src/main.rs): the ingestion task that reads the   *)
(* named pipe and feeds the bounded command queue, and the supervisor loop *)
(* of main that resolves the TV's address, connects, persists the pairing  *)
(* key, and dispatches each dequeued command to the WebOS client.          *)
(*                                                                         *)
(* Strings are sequences of atoms (each atom a fixed piece of text), so    *)
(* that trim, starts_with and equality are computed as the code computes   *)
(* them.  i64 values are four 16-bit limbs, most significant first, in     *)
(* two's complement, so that vol + 1 and vol - 1 keep their width.         *)
(***************************************************************************)
EXTENDS Integers, Sequences, FiniteSets, TLC

\* ------------------------------------------------------------------ bounds

\* Number of non-blank lines the pipe delivers in one run.
MaxLines == 2

\* Number of lines a burst of writes holds beyond the capacity of the queue.
BurstExtra == 2

\* Number of non-blank lines the pipe delivers in a run checked for liveness.
LiveLines == 1

\* ------------------------------------------------------- program constants

\* mpsc::channel(32)
QueueCap == 32
\* Duration::from_secs(5): wait for a command while no client is held
ShortWait == 5
\* Duration::from_secs(3600): wait for a command while a client is held
LongWait == 3600
\* .max(0).min(100)
VolMin == 0
VolMax == 100

\* ------------------------------------------------------------ Option<T>

None == [some |-> FALSE]
Some(x) == [some |-> TRUE, val |-> x]

\* ------------------------------------------------------------ strings

\* char::is_whitespace, on the atoms used here
WhiteSpace == {" ", "\n", "\t"}

RECURSIVE TrimStart(_)
TrimStart(s) ==
    IF s = <<>> \/ Head(s) \notin WhiteSpace THEN s ELSE TrimStart(Tail(s))

RECURSIVE TrimEnd(_)
TrimEnd(s) ==
    IF s = <<>> \/ s[Len(s)] \notin WhiteSpace THEN s
    ELSE TrimEnd(SubSeq(s, 1, Len(s) - 1))

\* str::trim
Trim(s) == TrimEnd(TrimStart(s))

\* str::starts_with
StartsWith(s, p) == Len(s) >= Len(p) /\ SubSeq(s, 1, Len(p)) = p

VOLUME == <<"volume">>
VOLUME_UP == <<"volume", "_up">>
VOLUME_DOWN == <<"volume", "_down">>
MUTE == <<"mute">>
UNMUTE == <<"un", "mute">>

\* Lines the pipe can deliver to read_line (with their line terminator, if any).
Lines ==
    { <<"volume", "_up", "\n">>,
      <<" ", "volume", "_down", "\n">>,
      <<"mute", "\n">>,
      <<"un", "mute", " ", "\n">>,
      <<"volume", "\n">>,
      <<"power">>,
      <<"\n">>,
      <<" ", "\t", "\n">> }

\* ------------------------------------------------------------ i64

\* 2^16, one limb; 2^15, the sign bit of the top limb
Base == 256 * 256
Half == Base \div 2

I64Max == <<Half - 1, Base - 1, Base - 1, Base - 1>>
I64Min == <<Half, 0, 0, 0>>

\* The i64 of a small integer n, -Base < n < Base.
I64(n) == IF n >= 0 THEN <<0, 0, 0, n>> ELSE <<Base - 1, Base - 1, Base - 1, Base + n>>

IsNeg(a) == a[1] >= Half

RECURSIVE LexLess(_, _, _)
LexLess(a, b, i) ==
    IF i > 4 THEN FALSE
    ELSE IF a[i] # b[i] THEN a[i] < b[i]
    ELSE LexLess(a, b, i + 1)

\* a < b on i64
I64Less(a, b) ==
    IF IsNeg(a) # IsNeg(b) THEN IsNeg(a) ELSE LexLess(a, b, 1)

\* Ord::max, Ord::min
I64MaxOf(a, b) == IF I64Less(a, b) THEN b ELSE a
I64MinOf(a, b) == IF I64Less(b, a) THEN b ELSE a

\* a + 1 modulo 2^64
WrappingInc(a) ==
    IF a[4] < Base - 1 THEN <<a[1], a[2], a[3], a[4] + 1>>
    ELSE IF a[3] < Base - 1 THEN <<a[1], a[2], a[3] + 1, 0>>
    ELSE IF a[2] < Base - 1 THEN <<a[1], a[2] + 1, 0, 0>>
    ELSE <<(a[1] + 1) % Base, 0, 0, 0>>

\* a - 1 modulo 2^64
WrappingDec(a) ==
    IF a[4] > 0 THEN <<a[1], a[2], a[3], a[4] - 1>>
    ELSE IF a[3] > 0 THEN <<a[1], a[2], a[3] - 1, Base - 1>>
    ELSE IF a[2] > 0 THEN <<a[1], a[2] - 1, Base - 1, Base - 1>>
    ELSE <<(a[1] + Base - 1) % Base, Base - 1, Base - 1, Base - 1>>

\* nv as i8: the low 8 bits, as a signed integer
AsI8(a) ==
    LET low == a[4] % 256 IN IF low >= 128 THEN low - 256 ELSE low

\* Volumes the TV's get-volume response can carry (Value::as_i64).
Volumes == { I64Min, I64(-1), I64(0), I64(50), I64(100), I64(101), I64Max }


\* nv = (vol + 1).max(0).min(100)
NewVolumeUp(vol) == I64MinOf(I64MaxOf(WrappingInc(vol), I64(VolMin)), I64(VolMax))

\* nv = (vol - 1).max(0).min(100)
NewVolumeDown(vol) == I64MinOf(I64MaxOf(WrappingDec(vol), I64(VolMin)), I64(VolMax))

\* vol + 1 / vol - 1 leaves the i64 range (a panic when the build checks overflow)
AddOverflows(vol) == vol = I64Max
SubOverflows(vol) == vol = I64Min

\* ------------------------------------------------------------ pairing keys

\* Contents the key file can have when the program starts.
InitialKeyFiles == { None, Some(<<"K1", "\n">>) }

\* Keys a connected client can expose in c.key.
ClientKeys == { None, Some(<<"K1">>), Some(<<" ", "K2", "\n">>) }

\* ------------------------------------------------------------------ state

VARIABLES
    \* ingestion task (tokio::spawn, lines 106-125)
    ipc,            \* "open" | "read" | "send" | "sleep"
    line,           \* the String buffer `line`
    \* the channel (tx, tx_clone, rx)
    queue,          \* commands buffered in the mpsc channel, each with its seq
    senders,        \* the Sender handles that are alive
    \* supervisor loop of main (lines 128-204)
    spc,            \* "loop" | "loadkey" | "connect" | "persist" | "recv" |
                    \* "gate" | "dispatch" | "setvol" | "exited" | "panicked"
    client,         \* client: Option<ClientType>
    ip,             \* Option: the address resolve_ip_from_mac returned
    key,            \* Option: the key loaded from the key file
    c,              \* Option: the client WebosClient::new returned
    cmd,            \* the command taken from the queue: its text and the
                    \* position (seq) at which the ingestion task read it
    nv,             \* the new volume, an i64
    waitTime,       \* wait_time, seconds
    \* environment
    keyFile,        \* Option: contents of ~/.lgtv_key (None: no such file)
    homeDir,        \* whether home_dir() returns a directory
    overflowChecks, \* whether the build panics on integer overflow
    feed,           \* what the writers of the pipe write in this run: how many
                    \* non-blank lines, and whether as one scripted burst
    nextSid,        \* identity of the next session the TV will open
    \* instrumentation
    readCount,      \* number of commands the ingestion task has read
    deqCount,       \* number of commands the supervisor has dequeued
    calls,          \* requests sent through send_command for the command `cmd`
    failedSids,     \* sessions on which a GetVolume request has failed
    ops,            \* external operations of the current outer iteration
    written,        \* Option: the key last written successfully and not yet re-read
    ioErr           \* whether the last open or read of the pipe ended in an
                    \* error after which the task has not slept yet

ingestVars == <<ipc, line, readCount, ioErr>>
superVars == <<spc, client, ip, key, c, cmd, nv, waitTime, keyFile, nextSid,
               deqCount, calls, failedSids, ops, written>>
vars == <<ipc, line, queue, senders, spc, client, ip, key, c, cmd, nv, waitTime,
          keyFile, homeDir, overflowChecks, nextSid, readCount, deqCount, calls,
          failedSids, ops, written, feed, ioErr>>

\* The process is alive: main has neither returned nor panicked.
Running == spc \notin {"exited", "panicked"}

\* Faulty variant of InitialSenders: tx is moved into the spawned task and main
\* keeps no Sender.
InitialSendersMoved == {"tx_clone"}

\* let (tx, mut rx) = mpsc::channel(32); let tx_clone = tx.clone(); the clone
\* is moved into the spawned task and tx stays a local of main, never dropped
\* before main returns.
InitialSenders == {"tx", "tx_clone"}

InitCommon ==
    /\ ipc = "open"
    /\ line = <<>>
    /\ queue = <<>>
    /\ senders = InitialSenders
    /\ spc = "loop"
    /\ client = None
    /\ ip = None
    /\ key = None
    /\ c = None
    /\ cmd = [seq |-> 0, text |-> <<>>]
    /\ nv = I64(0)
    /\ waitTime = 0
    /\ keyFile \in InitialKeyFiles
    /\ homeDir \in BOOLEAN
    /\ overflowChecks \in BOOLEAN
    /\ nextSid = 1
    /\ readCount = 0
    /\ deqCount = 0
    /\ calls = <<>>
    /\ failedSids = {}
    /\ ops = <<>>
    /\ written = None
    /\ ioErr = FALSE

\* Any run: the writers write up to MaxLines non-blank lines, each any of Lines.
Init == InitCommon /\ feed = [lines |-> MaxLines, burst |-> FALSE]

\* ---------------------------------------------------------- ingestion task

\* Faulty variant of Enqueue: the new command overtakes the buffered ones.
EnqueueFront(q, e) == <<e>> \o q

\* Faulty variant of HasCapacity: the channel takes a message whatever it holds.
HasCapacityAlways(q) == TRUE

\* mpsc::channel(32): a send completes while fewer than 32 messages are buffered.
HasCapacity(q) == Len(q) < QueueCap

\* tx_clone.send(..): the channel delivers in the order of the sends.
Enqueue(q, e) == Append(q, e)

\* OpenOptions::new().read(true).write(true).open(PIPE_PATH).await:
\* Ok(file) starts the read loop, Err(_) goes to the one-second sleep.
OpenPipe ==
    /\ Running
    /\ ipc = "open"
    /\ \E ok \in BOOLEAN :
          /\ ipc' = IF ok THEN "read" ELSE "sleep"
          /\ ioErr' = ~ok
    /\ line' = <<>>
    /\ UNCHANGED <<readCount, queue, senders, homeDir, overflowChecks, feed>>
    /\ UNCHANGED superVars

\* Err(_) => sleep(Duration::from_secs(1)).await, then the outer loop again.
Backoff ==
    /\ Running
    /\ ipc = "sleep"
    /\ ipc' = "open"
    /\ ioErr' = FALSE
    /\ UNCHANGED <<line, readCount, queue, senders, homeDir, overflowChecks, feed>>
    /\ UNCHANGED superVars

\* The line of a burst at position k: one volume_up, then mute after mute.
BurstLine(k) == IF k = 0 THEN <<"volume", "_up", "\n">> ELSE <<"mute", "\n">>

\* The lines the writers may have put next into the pipe.
Offered == IF feed.burst THEN {BurstLine(readCount)} ELSE Lines

\* What reader.read_line(&mut line).await can return: a line, end of file, an error.
ReadResults == [kind : {"line"}, text : Offered] \cup {[kind |-> "eof"], [kind |-> "err"]}

\* One turn of `while let Ok(n) = reader.read_line(&mut line).await`: n == 0 and
\* Err(_) both leave the while loop, and the outer loop opens the pipe again at
\* once; a line is trimmed and, when not empty, goes on to tx_clone.send.
ReadLine ==
    /\ Running
    /\ ipc = "read"
    /\ \E r \in ReadResults :
          IF r.kind = "line"
          THEN LET cmdText == Trim(r.text) IN
               IF cmdText # <<>>
               THEN /\ readCount < feed.lines
                    /\ line' = r.text
                    /\ readCount' = readCount + 1
                    /\ ipc' = "send"
                    /\ UNCHANGED ioErr
               ELSE /\ line' = <<>>
                    /\ UNCHANGED <<readCount, ipc, ioErr>>
          ELSE /\ ipc' = "open"
               /\ ioErr' = (r.kind = "err")
               /\ line' = <<>>
               /\ UNCHANGED readCount
    /\ UNCHANGED <<queue, senders, homeDir, overflowChecks, feed>>
    /\ UNCHANGED superVars

\* tx_clone.send(AppEvent::CommandReceived(cmd)).await, then line.clear():
\* the send completes only when the channel has a free slot.
SendCmd ==
    /\ Running
    /\ ipc = "send"
    /\ HasCapacity(queue)
    /\ queue' = Enqueue(queue, [seq |-> readCount, text |-> Trim(line)])
    /\ line' = <<>>
    /\ ipc' = "read"
    /\ UNCHANGED <<readCount, ioErr, senders, homeDir, overflowChecks, feed>>
    /\ UNCHANGED superVars

\* ------------------------------------------------------------- supervisor

\* Faulty variant of ClientIsNone: the test for a held session always answers "none".
ClientIsNoneAlways(cl) == TRUE

\* client.is_none()
ClientIsNone(cl) == cl = None

\* Faulty variant of WaitTime: the long wait is used in both states.
WaitTimeLong(cl) == LongWait

\* let wait_time = if client.is_none() { 5 s } else { 3600 s }
WaitTime(cl) == IF ClientIsNone(cl) THEN ShortWait ELSE LongWait

\* Faulty variant of AudioAffecting: the gate forgets mute and unmute.
AudioAffectingVolumeOnly(t) == StartsWith(t, VOLUME)

\* cmd.starts_with("volume") || cmd == "mute" || cmd == "unmute"
AudioAffecting(t) == StartsWith(t, VOLUME) \/ t = MUTE \/ t = UNMUTE

\* Faulty variant of KeyChanged: the key is written on every successful connect.
KeyChangedAlways(k, newKeyTrimmed) == TRUE

\* key.as_deref() != Some(new_key_trimmed)
KeyChanged(k, newKeyTrimmed) == k # Some(newKeyTrimmed)

\* `c.send_command(GetVolume).await.map_err(..)?`: an Err leaves the async block
\* as the block's result.
QueryResultIsErr(ok) == ~ok

\* Faulty variant of WriteResultIsErr: a failed SetVolume or SetMute is propagated.
WriteResultIsErrPropagated(ok) == ~ok

\* `let _ = c.send_command(..).await; Ok(())`: the outcome of a SetVolume or
\* SetMute request is discarded and the block's result is Ok.
WriteResultIsErr(ok) == FALSE

\* Faulty variant of AfterResult: the session is kept whatever the result.
AfterResultKeep(isErr, cl) == cl

\* if result.is_err() { client = None; }
AfterResult(isErr, cl) == IF isErr THEN None ELSE cl

\* Faulty variant of Dequeue: the received command stays buffered.
DequeueKeep(q) == q

\* rx.recv() takes the oldest buffered message out of the channel.
Dequeue(q) == Tail(q)

\* What timeout(wait_time, rx.recv()) yields: a buffered command at once; with
\* the channel empty, None when no sender is left, and otherwise the timeout.
RecvOutcome(q, s) ==
    IF q # <<>> THEN "command" ELSE IF s = {} THEN "closed" ELSE "timeout"

\* Faulty variant of LoopExits: the timeout arm leaves the loop too.
LoopExitsOnTimeout(outcome) == outcome \in {"closed", "timeout"}

\* Ok(None) => break
LoopExits(outcome) == outcome = "closed"

\* One request sent with c.send_command, as the instrumented client records it:
\* the command it serves (its seq), the session, the request,
\* its argument, whether it succeeded and, for GetVolume, the volume in the payload.
Call(op, arg, ok, vol) ==
    [cmd |-> cmd.seq, sid |-> client.val.sid, op |-> op, arg |-> arg,
     ok |-> ok, vol |-> vol]

\* What send_command(GetVolume) can return: Err, or Ok with a payload that
\* carries volumeStatus.volume as an i64 or does not.
GetVolumeResults ==
    {[ok |-> FALSE, vol |-> None]}
        \cup {[ok |-> TRUE, vol |-> v] : v \in {None} \cup {Some(x) : x \in Volumes}}

\* if client.is_none() { if let Some(ip) = resolve_ip_from_mac() { ... } }
ResolveIp ==
    /\ spc = "loop"
    /\ ClientIsNone(client)
    /\ \E r \in {None, Some("ip")} :
          /\ ip' = r
          /\ IF r.some
             THEN /\ ops' = <<"resolve_some">>
                  /\ spc' = "loadkey"
                  /\ UNCHANGED waitTime
             ELSE /\ ops' = <<"resolve_none">>
                  /\ spc' = "recv"
                  /\ waitTime' = WaitTime(client)
    /\ UNCHANGED <<client, key, c, cmd, nv, keyFile, nextSid, deqCount, calls, failedSids, written>>
    /\ UNCHANGED <<queue, senders, homeDir, overflowChecks, feed>>
    /\ UNCHANGED ingestVars

\* client.is_some(): the connection step is skipped.
KeepClient ==
    /\ spc = "loop"
    /\ ~ClientIsNone(client)
    /\ ops' = <<>>
    /\ spc' = "recv"
    /\ waitTime' = WaitTime(client)
    /\ UNCHANGED <<client, ip, key, c, cmd, nv, keyFile, nextSid, deqCount, calls, failedSids,
                   written>>
    /\ UNCHANGED <<queue, senders, homeDir, overflowChecks, feed>>
    /\ UNCHANGED ingestVars

\* home_dir().expect(..), key_path.exists(), read_to_string(..).ok().map(trim)
LoadKey ==
    /\ spc = "loadkey"
    /\ IF ~homeDir
       THEN /\ spc' = "panicked"
            /\ ops' = Append(ops, "panic")
            /\ UNCHANGED <<key, written>>
       ELSE /\ spc' = "connect"
            /\ written' = None
            /\ IF keyFile = None
               THEN /\ key' = None
                    /\ ops' = Append(ops, "no_file")
               ELSE \E readOk \in BOOLEAN :
                       /\ key' = IF readOk THEN Some(Trim(keyFile.val)) ELSE None
                       /\ ops' = Append(ops, IF readOk THEN "read_ok" ELSE "read_err")
    /\ UNCHANGED <<client, ip, c, cmd, nv, waitTime, keyFile, nextSid, deqCount, calls,
                   failedSids>>
    /\ UNCHANGED <<queue, senders, homeDir, overflowChecks, feed>>
    /\ UNCHANGED ingestVars

\* What WebosClient::new(config).await can return: Err, or a client with its key.
ConnectResults == {[ok |-> FALSE]} \cup {[ok |-> TRUE, key |-> k] : k \in ClientKeys}

\* if let Ok(c) = WebosClient::new(config).await
Connect ==
    /\ spc = "connect"
    /\ \E r \in ConnectResults :
          IF r.ok
          THEN /\ c' = Some([sid |-> nextSid, key |-> r.key])
               /\ nextSid' = nextSid + 1
               /\ ops' = Append(ops, "connect_ok")
               /\ spc' = "persist"
               /\ UNCHANGED <<ip, key, waitTime>>
          ELSE /\ ops' = Append(ops, "connect_err")
               /\ spc' = "recv"
               /\ waitTime' = WaitTime(client)
               /\ ip' = None
               /\ key' = None
               /\ UNCHANGED <<c, nextSid>>
    /\ UNCHANGED <<client, cmd, nv, keyFile, deqCount, calls, failedSids, written>>
    /\ UNCHANGED <<queue, senders, homeDir, overflowChecks, feed>>
    /\ UNCHANGED ingestVars

\* Faulty variant of StoredClient: a failed write of the key gives the session up.
StoredClientUnlessWriteFailed(w, conn) ==
    IF w \in {"err", "err_truncated"} THEN None ELSE Some([sid |-> conn.val.sid])

\* let _ = tokio::fs::write(..).await; ... client = Some(c): the outcome w of
\* the write (or "none" when nothing was written) is discarded.
StoredClient(w, conn) == Some([sid |-> conn.val.sid])

\* What tokio::fs::write can do: write the file, fail leaving it as it was, or
\* fail after truncating it.
WriteResults == {"ok", "err", "err_truncated"}

\* if let Some(new_key) = &c.key { if key != Some(trimmed) { write } }; client = Some(c).
\* c.key is not read again once c is stored: the holder keeps the session's identity.
PersistKey ==
    /\ spc = "persist"
    /\ LET newKey == c.val.key IN
       IF newKey.some /\ KeyChanged(key, Trim(newKey.val))
       THEN \E w \in WriteResults :
               /\ keyFile' = CASE w = "ok" -> Some(Trim(newKey.val))
                               [] w = "err" -> keyFile
                               [] w = "err_truncated" -> Some(<<>>)
               /\ written' = IF w = "ok" THEN Some(Trim(newKey.val)) ELSE None
               /\ ops' = Append(ops, IF w = "ok" THEN "write_ok" ELSE "write_err")
               /\ client' = StoredClient(w, c)
       ELSE /\ client' = StoredClient("none", c)
            /\ UNCHANGED <<keyFile, written, ops>>
    /\ c' = None
    /\ ip' = None
    /\ key' = None
    /\ spc' = "recv"
    /\ waitTime' = WaitTime(client')
    /\ UNCHANGED <<cmd, nv, nextSid, deqCount, calls, failedSids>>
    /\ UNCHANGED <<queue, senders, homeDir, overflowChecks, feed>>
    /\ UNCHANGED ingestVars

\* match tokio::time::timeout(wait_time, rx.recv()).await { Ok(Some(..)) => ..,
\* Ok(None) => break, Err(_) => {} }
Recv ==
    /\ spc = "recv"
    /\ LET outcome == RecvOutcome(queue, senders) IN
       IF outcome = "command"
       THEN /\ cmd' = Head(queue)
            /\ queue' = Dequeue(queue)
            /\ deqCount' = deqCount + 1
            /\ calls' = <<>>
            /\ ops' = Append(ops, "recv_cmd")
            /\ spc' = "gate"
       ELSE /\ ops' = Append(ops, IF outcome = "closed" THEN "recv_closed" ELSE "recv_timeout")
            /\ spc' = IF LoopExits(outcome) THEN "exited" ELSE "loop"
            /\ UNCHANGED <<cmd, queue, deqCount, calls>>
    /\ UNCHANGED <<client, ip, key, c, nv, waitTime, keyFile, nextSid, failedSids, written>>
    /\ UNCHANGED <<senders, homeDir, overflowChecks, feed>>
    /\ UNCHANGED ingestVars

\* if !is_lg_tv_active_audio() && (audio-affecting) { continue; }
AudioGate ==
    /\ spc = "gate"
    /\ IF ~homeDir
       THEN /\ spc' = "panicked"
            /\ ops' = Append(ops, "panic")
       ELSE \E active \in BOOLEAN :
               /\ ops' = Append(ops, IF active THEN "oracle_active" ELSE "oracle_inactive")
               /\ spc' = IF ~active /\ AudioAffecting(cmd.text) THEN "loop" ELSE "dispatch"
    /\ UNCHANGED <<client, ip, key, c, cmd, nv, waitTime, keyFile, nextSid, deqCount,
                   calls, failedSids, written>>
    /\ UNCHANGED <<queue, senders, homeDir, overflowChecks, feed>>
    /\ UNCHANGED ingestVars

\* "volume_up" / "volume_down": GetVolume, `?` on its error, then the new volume.
VolumeStep(overflows, newVolume) ==
    \E r \in GetVolumeResults :
       /\ calls' = Append(calls, Call("GetVolume", None, r.ok, r.vol))
       /\ IF ~r.ok
          THEN /\ client' = AfterResult(QueryResultIsErr(r.ok), client)
               /\ failedSids' = failedSids \cup {client.val.sid}
               /\ spc' = "loop"
               /\ ops' = Append(ops, "get_volume_err")
               /\ UNCHANGED nv
          ELSE IF ~r.vol.some
          THEN /\ spc' = "loop"
               /\ ops' = Append(ops, "get_volume_ok")
               /\ UNCHANGED <<client, nv, failedSids>>
          ELSE IF overflows[r.vol.val] /\ overflowChecks
          THEN /\ spc' = "panicked"
               /\ ops' = Append(ops, "panic")
               /\ UNCHANGED <<client, nv, failedSids>>
          ELSE /\ nv' = newVolume[r.vol.val]
               /\ spc' = "setvol"
               /\ ops' = Append(ops, "get_volume_ok")
               /\ UNCHANGED <<client, failedSids>>

\* "mute" / "unmute": let _ = c.send_command(SetMute(b)).await; Ok(())
MuteStep(b) ==
    \E ok \in BOOLEAN :
       /\ calls' = Append(calls, Call("SetMute", Some(b), ok, None))
       /\ client' = AfterResult(WriteResultIsErr(ok), client)
       /\ ops' = Append(ops, "set_mute")
       /\ spc' = "loop"
       /\ UNCHANGED <<nv, failedSids>>

\* if let Some(c) = &client { match cmd.as_str() { ... } }
Dispatch ==
    /\ spc = "dispatch"
    /\ IF ClientIsNone(client)
       THEN /\ spc' = "loop"
            /\ UNCHANGED <<client, nv, calls, failedSids, ops>>
       ELSE CASE cmd.text = VOLUME_UP ->
                   VolumeStep([v \in Volumes |-> AddOverflows(v)],
                              [v \in Volumes |-> NewVolumeUp(v)])
              [] cmd.text = VOLUME_DOWN ->
                   VolumeStep([v \in Volumes |-> SubOverflows(v)],
                              [v \in Volumes |-> NewVolumeDown(v)])
              [] cmd.text = MUTE -> MuteStep(TRUE)
              [] cmd.text = UNMUTE -> MuteStep(FALSE)
              [] OTHER ->
                   /\ spc' = "loop"
                   /\ UNCHANGED <<client, nv, calls, failedSids, ops>>
    /\ UNCHANGED <<ip, key, c, cmd, waitTime, keyFile, nextSid, deqCount, written>>
    /\ UNCHANGED <<queue, senders, homeDir, overflowChecks, feed>>
    /\ UNCHANGED ingestVars

\* let _ = c.send_command(WebOsCommand::SetVolume(nv as i8)).await; Ok(())
SetVolume ==
    /\ spc = "setvol"
    /\ \E ok \in BOOLEAN :
          /\ calls' = Append(calls, Call("SetVolume", Some(AsI8(nv)), ok, None))
          /\ client' = AfterResult(WriteResultIsErr(ok), client)
    /\ ops' = Append(ops, "set_volume")
    /\ nv' = I64(0)
    /\ spc' = "loop"
    /\ UNCHANGED <<ip, key, c, cmd, waitTime, keyFile, nextSid, deqCount, failedSids, written>>
    /\ UNCHANGED <<queue, senders, homeDir, overflowChecks, feed>>
    /\ UNCHANGED ingestVars

\* --------------------------------------------------------------- the program

Ingestion == OpenPipe \/ Backoff \/ ReadLine \/ SendCmd

Supervisor ==
    \/ ResolveIp \/ KeepClient \/ LoadKey \/ Connect \/ PersistKey
    \/ Recv \/ AudioGate \/ Dispatch \/ SetVolume

Next == Ingestion \/ Supervisor

Spec == Init /\ [][Next]_vars

\* A burst: the writers write QueueCap + BurstExtra commands, one volume_up and
\* then mute after mute, faster than the supervisor need take them, in a
\* release build started with a home directory and no key file.
BurstInit ==
    /\ InitCommon
    /\ feed = [lines |-> QueueCap + BurstExtra, burst |-> TRUE]
    /\ homeDir
    /\ ~overflowChecks
    /\ keyFile = None

BurstSpec == BurstInit /\ [][Next]_vars

\* Scheduling: the supervisor runs on the runtime's main task and each of its
\* steps is an await that completes once its external call returns (a wait for
\* a command ends by the timeout at the latest), so a supervisor step that
\* stays possible is taken; tx_clone.send completes once the channel has a free
\* slot.  What the writers of the pipe do, and when, is left open.
LiveInit == InitCommon /\ feed = [lines |-> LiveLines, burst |-> FALSE]

LiveSpec == LiveInit /\ [][Next]_vars /\ WF_vars(Supervisor) /\ WF_vars(SendCmd)

\* ------------------------------------------------------------ properties

Last(s) == s[Len(s)]
Range(s) == {s[i] : i \in 1..Len(s)}

\* The four command tokens that reach the TV.
Recognized == {VOLUME_UP, VOLUME_DOWN, MUTE, UNMUTE}

\* A step that sends a request: the request is the last one of calls'.
Sends == Len(calls') = Len(calls) + 1

\* C1: the k-th command the supervisor dequeues is the k-th command the
\* ingestion task read: the queue holds, in order, exactly the commands read and
\* not yet dequeued, every dequeue takes the next one, a command is dequeued
\* only while no request of the previous command is outstanding, and every
\* request sent serves the command dequeued last.
C1_InOrder ==
    /\ [](/\ cmd.seq = deqCount
          /\ \A i \in 1..Len(queue) : queue[i].seq = deqCount + i
          /\ readCount = deqCount + Len(queue) + (IF ipc = "send" THEN 1 ELSE 0)
          /\ \A i \in 1..Len(calls) : calls[i].cmd = deqCount)
    /\ [][/\ deqCount' # deqCount =>
                /\ spc = "recv"
                /\ deqCount' = deqCount + 1
                /\ cmd' = Head(queue)
                /\ queue' = Tail(queue)
          /\ Sends => /\ Last(calls').cmd = deqCount
                      /\ deqCount' = deqCount
                      /\ spc \in {"dispatch", "setvol"}]_vars

\* C1 witness: the second command read has been dequeued second and its
\* requests are complete.
C1_Witness == deqCount = 2 /\ cmd.seq = 2 /\ Len(calls) = 2 /\ spc = "loop"

\* The command in `cmd` sends nothing: it is not one of the four recognized
\* tokens, or the oracle has reported "not active" for it.
SendsNothing(o) == cmd.text \notin Recognized \/ "oracle_inactive" \in Range(o)

\* C2: a volume_up, volume_down, mute or unmute for which the oracle reports
\* "not active" sends no request and leaves the held session as it is, and so
\* does a command of any other token whatever the oracle reports.
C2_GateSuppression ==
    /\ [](SendsNothing(ops) => calls = <<>>)
    /\ [][(spc \in {"gate", "dispatch", "setvol"} /\ SendsNothing(ops'))
             => client' = client /\ calls' = <<>>]_vars

\* C2 witness: a mute was dequeued while connected, the oracle reported "not
\* active", and the iteration is over.
C2_Witness ==
    /\ spc = "loop"
    /\ cmd.text = MUTE
    /\ ops = <<"recv_cmd", "oracle_inactive">>
    /\ client # None

\* C2 witness for the other tokens: an unrecognized command passed the gate
\* while connected, and the iteration is over.
C2_WitnessOther ==
    /\ spc = "loop"
    /\ cmd.text = <<"power">>
    /\ ops = <<"recv_cmd", "oracle_active">>
    /\ client # None

\* A step that sends a GetVolume request that fails.
ProbeFails == Sends /\ Last(calls').op = "GetVolume" /\ ~Last(calls').ok

\* The connection step of the current outer iteration made a connect call.
ConnectAttempted(o) == "connect_ok" \in Range(o) \/ "connect_err" \in Range(o)

\* C3: a failed GetVolume drops the session in the same step and ends the
\* command, so before any further dequeue; the outer iteration that follows
\* starts with address resolution and, when that resolves, goes on to a connect
\* call whose session is a new one; and no request is ever sent on a session
\* on which a GetVolume has failed.
C3_Reconnect ==
    /\ [](/\ client # None => client.val.sid \notin failedSids
          /\ c # None => c.val.sid \notin failedSids
          /\ (/\ failedSids # {}
              /\ ops # <<>> /\ ops[1] = "resolve_some"
              /\ spc \notin {"loadkey", "connect"}) => ConnectAttempted(ops))
    /\ [][/\ ProbeFails => /\ client' = None
                           /\ spc' = "loop"
                           /\ Last(calls').sid \in failedSids'
          /\ Sends => Last(calls').sid \notin failedSids
          /\ (spc = "loop" /\ client = None /\ spc' # "loop")
                => ops' \in {<<"resolve_some">>, <<"resolve_none">>}]_vars

\* C3 witness: the probe failed on session 1, and a later iteration resolved
\* the address again and connected session 2, which now serves a command.
C3_Witness ==
    /\ failedSids = {1}
    /\ client = Some([sid |-> 2])
    /\ calls # <<>> /\ Last(calls).sid = 2

\* The last request recorded is a SetVolume or SetMute that failed.
WriteFailed(cs) ==
    cs # <<>> /\ Last(cs).op \in {"SetVolume", "SetMute"} /\ ~Last(cs).ok

\* C4: a failed SetVolume or SetMute leaves the supervisor connected with the
\* same session and ends the command; the iteration that follows makes no
\* address resolution and no connect call (it goes straight to the wait); and
\* the session holder goes from a session to none only in a step whose
\* GetVolume request fails.
C4_AsymmetricFailure ==
    /\ []((WriteFailed(calls) /\ spc = "recv")
             => client = Some([sid |-> Last(calls).sid]) /\ ops = <<>>)
    /\ [][/\ (Sends /\ WriteFailed(calls'))
                => client' = client /\ client' # None /\ spc' = "loop"
          /\ (client # None /\ client' = None) => ProbeFails]_vars

\* C4 witness: a SetVolume failed after a successful GetVolume, and the
\* supervisor is waiting for the next command with the same session.
C4_Witness ==
    /\ spc = "recv"
    /\ WriteFailed(calls) /\ Last(calls).op = "SetVolume"
    /\ client = Some([sid |-> Last(calls).sid])

\* min(max(v + 1, 0), 100) and min(max(v - 1, 0), 100) over the integers, for
\* an i64 v: the values the specification asks for.
ClampedSucc(v) ==
    IF IsNeg(v) THEN 0 ELSE IF I64Less(I64(VolMax - 1), v) THEN VolMax ELSE v[4] + 1
ClampedPred(v) ==
    IF I64Less(v, I64(2)) THEN 0 ELSE IF I64Less(I64(VolMax), v) THEN VolMax ELSE v[4] - 1

\* The command is over: the supervisor is back at the top of the loop, or waits
\* for the next command, or the process has panicked.
CommandOver == spc \in {"loop", "recv", "panicked"}

\* The volume a successful GetVolume reported, as request i of calls.
Reported(i) == calls[i].op = "GetVolume" /\ calls[i].ok /\ calls[i].vol.some

\* C5: for every volume v a successful GetVolume reports, volume_up sends
\* SetVolume(min(max(v + 1, 0), 100)) and volume_down sends
\* SetVolume(min(max(v - 1, 0), 100)), always within 0..100.
C5_Clamping ==
    /\ \A i \in 1..Len(calls) :
          calls[i].op = "SetVolume" =>
             /\ i > 1 /\ Reported(i - 1)
             /\ calls[i].arg.val \in VolMin..VolMax
             /\ calls[i].arg.val = IF cmd.text = VOLUME_UP
                                   THEN ClampedSucc(calls[i - 1].vol.val)
                                   ELSE ClampedPred(calls[i - 1].vol.val)
    /\ (CommandOver /\ calls # <<>> /\ Reported(Len(calls))) => FALSE

\* C5, the part the code keeps: every SetVolume argument is within 0..100, and
\* it is the clamped successor or predecessor of the reported volume whenever
\* vol + 1 or vol - 1 stays within i64.
C5_ClampingWithinI64 ==
    \A i \in 1..Len(calls) :
       calls[i].op = "SetVolume" =>
          /\ i > 1 /\ Reported(i - 1)
          /\ calls[i].arg.val \in VolMin..VolMax
          /\ LET v == calls[i - 1].vol.val IN
             IF cmd.text = VOLUME_UP
             THEN v # I64Max => calls[i].arg.val = ClampedSucc(v)
             ELSE v # I64Min => calls[i].arg.val = ClampedPred(v)

\* The outer iteration recorded in ops dequeued `cmd` while a session was held
\* (kept from before, or connected in this iteration's connection step).
HandledConnected(o) ==
    /\ "recv_cmd" \in Range(o)
    /\ o[1] = "recv_cmd" \/ "connect_ok" \in Range(o)

\* The requests the claim allows for `cmd`, given that the gate let it through.
MappingHolds ==
    CASE cmd.text \in {VOLUME_UP, VOLUME_DOWN} ->
            /\ Len(calls) \in {1, 2}
            /\ calls[1].op = "GetVolume"
            /\ Len(calls) = 2 <=> Reported(1)
            /\ Len(calls) = 2 => calls[2].op = "SetVolume"
            /\ (calls[1].ok /\ ~calls[1].vol.some) => client # None
            /\ (cmd.text = VOLUME_UP /\ Reported(1) /\ calls[1].vol.val = I64(50))
                  => (Len(calls) = 2 /\ calls[2].arg.val = 51)
      [] cmd.text \in {MUTE, UNMUTE} ->
            /\ Len(calls) = 1
            /\ calls[1].op = "SetMute"
            /\ calls[1].arg.val = (cmd.text = MUTE)
      [] OTHER -> calls = <<>>

\* C6: once a command dequeued while connected and let through by the gate is
\* over, its requests are: for volume_up / volume_down one GetVolume, followed
\* by one SetVolume exactly when the GetVolume succeeded with a volume (the
\* session being kept when it succeeded without one); for mute one
\* SetMute(true); for unmute one SetMute(false); for any other token none.
C6_DispatchMapping ==
    (/\ spc \in {"loop", "panicked"}
     /\ HandledConnected(ops)
     /\ "oracle_active" \in Range(ops) \/ cmd.text \notin Recognized)
        => MappingHolds

\* C6, the part the code keeps: the mapping holds for every command whose
\* handling returns to the top of the loop.
C6_DispatchMappingCompleted ==
    (/\ spc = "loop"
     /\ HandledConnected(ops)
     /\ "oracle_active" \in Range(ops) \/ cmd.text \notin Recognized)
        => MappingHolds

\* A step of the ingestion task.
IngestionStep == <<ipc, line, readCount, queue>>' # <<ipc, line, readCount, queue>>
                    /\ deqCount' = deqCount

\* A step that makes the connect call.
Connects == Len(ops') = Len(ops) + 1 /\ Last(ops') \in {"connect_ok", "connect_err"}

\* C7: at most one session exists: the session a connect call returned and the
\* session in the holder are never both there; a connect call is made only with
\* the holder empty, in an iteration that began with the holder empty (with
\* address resolution); a session is stored only into an empty holder, and it is
\* the one the connect call returned; the ingestion task changes neither.
C7_SingleSession ==
    /\ [](/\ ~(c # None /\ client # None)
          /\ ConnectAttempted(ops) => ops[1] = "resolve_some")
    /\ [][/\ Connects => client = None
          /\ (Len(ops') = 1 /\ ops' # ops /\ ops'[1] \in {"resolve_some", "resolve_none"})
                => client = None
          /\ (client' # client /\ client' # None)
                => /\ client = None
                   /\ c # None /\ client' = Some([sid |-> c.val.sid])
                   /\ c' = None
          /\ IngestionStep => (client' = client /\ c' = c)]_vars

\* C7 witness: after the first session was dropped, a second one has been
\* stored in the holder.
C7_Witness == client = Some([sid |-> 2]) /\ c = None /\ failedSids = {1}

\* The number of writes of the key file among the operations o.
WriteCount(o) == Cardinality({i \in 1..Len(o) : o[i] \in {"write_ok", "write_err"}})

\* The step that follows a successful connect: lines 146-152.
PersistStep == spc = "persist" /\ spc' # "persist"

\* The step that loads the key for a connect attempt: lines 134-137.
LoadStep == spc = "loadkey" /\ spc' = "connect"

\* The session yields a credential whose trimmed value is not the loaded one.
YieldsNewKey == c.val.key.some /\ key # Some(Trim(c.val.key.val))

\* What every version of the claim shares: at most one write per outer
\* iteration and only after a successful connect; the file changes only in the
\* step after a connect that yields a new credential; no write when the yielded
\* credential is the loaded one or there is none; and from a successful write
\* until the next load the file holds what was written.
C8_Common ==
    /\ [](/\ WriteCount(ops) <= 1
          /\ WriteCount(ops) = 1 => "connect_ok" \in Range(ops)
          /\ written # None => keyFile = written)
    /\ [][/\ (PersistStep /\ ~YieldsNewKey) => (ops' = ops /\ keyFile' = keyFile)
          /\ keyFile' # keyFile => (PersistStep /\ YieldsNewKey)]_vars

\* C8 as stated: on a successful connect that yields a new credential exactly
\* one write is issued and the file becomes the trimmed new credential, and
\* after a successful write the credential loaded at the next reconnect is the
\* one written.
C8_AsStated ==
    /\ C8_Common
    /\ [][/\ (PersistStep /\ YieldsNewKey)
                => /\ WriteCount(ops') = WriteCount(ops) + 1
                   /\ keyFile' = Some(Trim(c.val.key.val))
          /\ (LoadStep /\ written # None) => key' = written]_vars

\* C8 as amended: on a successful connect that yields a new credential exactly
\* one write of the trimmed new credential is issued, and the file becomes
\* that credential when the write succeeds; after a successful write the
\* credential loaded at the next reconnect is the one written when the read of
\* the file succeeds, and none when it fails.
C8_CredentialPersistence ==
    /\ C8_Common
    /\ [][/\ (PersistStep /\ YieldsNewKey)
                => \/ /\ ops' = Append(ops, "write_ok")
                      /\ keyFile' = Some(Trim(c.val.key.val))
                      /\ written' = keyFile'
                   \/ ops' = Append(ops, "write_err")
          /\ (LoadStep /\ written # None)
                => IF Last(ops') = "read_ok" THEN key' = written ELSE key' = None]_vars

\* C8 witness: the first connect yielded " K2\n", "K2" was written, the probe
\* failed, and the next connect attempt has loaded "K2" from the file.
C8_Witness ==
    /\ spc = "connect"
    /\ failedSids = {1}
    /\ keyFile = Some(<<"K2">>)
    /\ key = Some(<<"K2">>)

\* The operations on the key file and on the Session Client.
KeyAndSessionOps ==
    {"no_file", "read_ok", "read_err", "connect_ok", "connect_err", "write_ok",
     "write_err", "get_volume_ok", "get_volume_err", "set_volume", "set_mute"}

\* The current outer iteration began with a resolution that returned nothing.
Unresolved(o) == o # <<>> /\ o[1] = "resolve_none"

\* C9: in an outer iteration whose address resolution returns nothing the
\* supervisor holds no session, makes no connect call, no request and no read
\* or write of the key file, and waits for the next command with the short
\* wait (5 s); and every outer iteration that starts with no session held
\* starts with address resolution.
C9_Unresolved ==
    /\ [](Unresolved(ops) =>
             /\ client = None /\ c = None
             /\ Range(ops) \cap KeyAndSessionOps = {}
             /\ "recv_cmd" \in Range(ops) => calls = <<>>
             /\ spc = "recv" => (waitTime = ShortWait /\ waitTime = 5))
    /\ [][/\ (spc = "loop" /\ client = None /\ spc' # "loop")
                => ops' \in {<<"resolve_some">>, <<"resolve_none">>}
          /\ (spc = "loop" /\ spc' # "loop" /\ Unresolved(ops'))
                => (spc' = "recv" /\ keyFile' = keyFile /\ nextSid' = nextSid)]_vars

\* C9 witness: a command was consumed in an unresolved iteration, and the
\* iteration after it has resolved nothing again and waits with the short wait.
C9_Witness ==
    /\ spc = "recv"
    /\ ops = <<"resolve_none">>
    /\ deqCount = 1 /\ nextSid = 1
    /\ waitTime = ShortWait

\* The operations whose failure, or whose empty result, must not end the loop.
NonFatalOps ==
    {"recv_timeout", "resolve_none", "connect_err", "write_err", "read_err",
     "get_volume_err", "set_volume", "set_mute"}

\* The channel reports that it is closed: it is empty and no sender is left.
QueueClosed == queue = <<>> /\ senders = {}

\* C10: main returns (spc = "exited") only from the wait for a command and only
\* when the channel reports closed, and the wait returns so whenever it does;
\* a wait timeout, an unresolved address, a failed connect, a failed key read
\* or write, a failed request and any step of the ingestion task (its open and
\* read errors included) leave the loop running.
C10_Termination ==
    /\ [](spc = "exited" => Last(ops) = "recv_closed")
    /\ [][/\ (spc' = "exited" /\ spc # "exited") => (spc = "recv" /\ QueueClosed)
          /\ (spc = "recv" /\ QueueClosed /\ spc' # spc) => spc' = "exited"
          /\ (ops' # ops /\ ops' # <<>> /\ Last(ops') \in NonFatalOps)
                => spc' \notin {"exited", "panicked"}
          /\ (Sends /\ ~Last(calls').ok) => spc' = "loop"
          /\ IngestionStep => spc' = spc]_vars

\* C10 witness: after a failed probe, an unresolved address and a wait
\* timeout, the supervisor is at the top of its loop again.
C10_Witness ==
    /\ spc = "loop"
    /\ failedSids = {1}
    /\ ops = <<"resolve_none", "recv_timeout">>

\* ---------------------------------------------------------------- C11

\* C11: after an error opening the pipe and after an error reading a line the
\* ingestion task sleeps the back-off interval before it opens the pipe again
\* (so wherever an error is still unslept, the task is at its sleep), and the
\* task never ends: it is always at its open, its sleep, its read or its send.
C11_Backoff ==
    /\ ipc \in {"open", "sleep", "read", "send"}
    /\ ioErr => ipc = "sleep"

\* ---------------------------------------------------------------- C12

\* C12: the queue never holds more than QueueCap commands; while it is full the
\* ingestion task stays at its send with its command and the buffered ones
\* intact, and the only change of the queue is a dequeue; a send that completes
\* appends exactly the pending command; the supervisor always has a step to
\* take, whatever the queue holds.
C12_Backpressure ==
    /\ [](Len(queue) <= QueueCap)
    /\ [](ipc = "send" =>
            /\ Trim(line) # <<>>
            /\ readCount = deqCount + Len(queue) + 1)
    /\ [][(ipc = "send" /\ Len(queue) = QueueCap) =>
            /\ ipc' = "send"
            /\ line' = line
            /\ readCount' = readCount
            /\ queue' \in {queue, Tail(queue)}]_vars
    /\ [][(ipc = "send" /\ ipc' # "send") =>
            queue' = Append(queue, [seq |-> readCount, text |-> Trim(line)])]_vars
    /\ [](Running => ENABLED Supervisor)

\* The queue is full before anything was dequeued and the ingestion task holds
\* one more command at its send.
C12_Witness ==
    /\ Len(queue) = QueueCap
    /\ ipc = "send"
    /\ deqCount = 0

\* ---------------------------------------------------------------- C13

\* Number of invocations of is_lg_tv_active_audio in the operations o.
OracleCalls(o) ==
    Cardinality({i \in DOMAIN o : o[i] \in {"oracle_active", "oracle_inactive"}})

\* C13: once the gate has been passed for a dequeued command, the oracle has
\* been invoked exactly once if the command is volume_up, volume_down, mute or
\* unmute and not at all if it is any other token; an iteration that dequeued
\* nothing has invoked it not at all.
C13_OracleOnlyForAudio ==
    /\ "recv_cmd" \notin Range(ops) => OracleCalls(ops) = 0
    /\ ("recv_cmd" \in Range(ops) /\ spc \notin {"gate", "panicked"}) =>
            OracleCalls(ops) = IF cmd.text \in Recognized THEN 1 ELSE 0

\* ---------------------------------------------------------------- C14

\* Operations of the connection step: resolution, key read, connect, key write.
ConnectionOps ==
    {"resolve_some", "resolve_none", "no_file", "read_ok", "read_err",
     "connect_ok", "connect_err", "write_ok", "write_err"}

\* A step that performs an external operation: the operation is the last of ops'.
Performs == ops' # ops /\ ops' # <<>>

\* C14: a step taken while a session is held performs no address resolution, no
\* read or write of the key file and no connect call, and leaves the key file
\* as it is; an outer iteration that starts with a session held goes straight
\* to the long wait; a wait that times out, a gate-suppressed command and a
\* command of no known token each leave the same session held; the holder goes
\* from empty to a session only at the end of a connection step whose
\* resolution returned an address and whose connect call succeeded, and the
\* session is the one that call returned.
C14_ConnectedFrame ==
    /\ [][client # None =>
            /\ Performs => Last(ops') \notin ConnectionOps
            /\ keyFile' = keyFile
            /\ nextSid' = nextSid
            /\ c' = None]_vars
    /\ [][(spc = "loop" /\ client # None /\ spc' # "loop") =>
            /\ spc' = "recv"
            /\ ops' = <<>>
            /\ waitTime' = LongWait
            /\ client' = client]_vars
    /\ [][(spc = "recv" /\ client # None /\ Performs /\ Last(ops') = "recv_timeout") =>
            /\ client' = client
            /\ calls' = calls
            /\ spc' = "loop"]_vars
    /\ [][(client # None /\ spc \in {"gate", "dispatch"} /\ spc' = "loop"
             /\ SendsNothing(ops')) =>
            /\ client' = client
            /\ calls' = <<>>]_vars
    /\ [][(client = None /\ client' # None) =>
            /\ spc = "persist"
            /\ ops[1] = "resolve_some"
            /\ "connect_ok" \in Range(ops)
            /\ client'.val.sid = c.val.sid]_vars

\* A wait with a session held has timed out and the session is still held.
C14_Witness == spc = "loop" /\ client # None /\ ops = <<"recv_timeout">>

\* A command of no known token has been handled with a session held.
C14_WitnessUnknown ==
    /\ spc = "loop"
    /\ client # None
    /\ cmd.text \notin Recognized
    /\ ops = <<"recv_cmd", "oracle_active">>

\* ---------------------------------------------------------------- C15

\* The connect call of the current outer iteration failed.
ConnectFailed(o) == "connect_err" \in Range(o)

\* Requests to the TV and writes of the key file, as operations.
RequestAndWriteOps ==
    {"write_ok", "write_err", "get_volume_ok", "get_volume_err", "set_volume", "set_mute"}

\* C15: a failed connect call ends the connection step with no session held and
\* the key file untouched, and the program goes on; the rest of that outer
\* iteration writes no key and sends no request, and waits for a command with
\* the short wait; the outer iteration that follows starts with address
\* resolution, and a resolved address leads (through the key load) to a connect
\* call.
C15_ConnectFailure ==
    /\ [](ConnectFailed(ops) =>
            /\ spc \in {"recv", "gate", "dispatch", "loop"}
            /\ client = None
            /\ c = None
            /\ Range(ops) \cap RequestAndWriteOps = {}
            /\ "recv_cmd" \in Range(ops) => calls = <<>>
            /\ spc = "recv" => waitTime = ShortWait)
    /\ [][(Connects /\ Last(ops') = "connect_err") =>
            /\ spc' = "recv"
            /\ keyFile' = keyFile
            /\ nextSid' = nextSid]_vars
    /\ [][(ConnectFailed(ops) /\ spc = "loop" /\ spc' # "loop") =>
            ops' \in {<<"resolve_some">>, <<"resolve_none">>}]_vars
    /\ [][(spc = "loop" /\ ops' = <<"resolve_some">>) => spc' = "loadkey"]_vars
    /\ [][(spc = "loadkey" /\ spc' # "loadkey" /\ homeDir) => spc' = "connect"]_vars
    /\ [][(spc = "connect" /\ spc' # "connect") => Connects]_vars

\* An outer iteration whose connect call failed has waited in vain and is over.
C15_Witness ==
    /\ spc = "loop"
    /\ ops = <<"resolve_some", "no_file", "connect_err", "recv_timeout">>

\* ---------------------------------------------------------------- C16

\* The write of the key file failed in the current outer iteration.
KeyWriteFailed(o) == "write_err" \in Range(o)

\* C16: the step in which the write of the changed key fails still stores the
\* session the connect call returned (a new one) and goes on to the long wait;
\* for the rest of that outer iteration the session stays held unless a
\* GetVolume fails, the loop is not left, and commands are dispatched; the
\* outer iteration that follows, the session still held, makes no resolution
\* and no connect call.
C16_PersistFailure ==
    /\ [][(PersistStep /\ Performs /\ Last(ops') = "write_err") =>
            /\ client' = Some([sid |-> c.val.sid])
            /\ c.val.sid = nextSid - 1
            /\ spc' = "recv"
            /\ waitTime' = LongWait]_vars
    /\ [](KeyWriteFailed(ops) =>
            /\ "connect_ok" \in Range(ops)
            /\ spc # "exited"
            /\ spc = "panicked" => Last(ops) = "panic" /\ "recv_cmd" \in Range(ops)
            /\ client = None => Last(ops) = "get_volume_err"
            /\ spc = "recv" => waitTime = LongWait)
    /\ [][(KeyWriteFailed(ops) /\ spc = "loop" /\ client # None /\ spc' # "loop") =>
            /\ spc' = "recv"
            /\ ops' = <<>>
            /\ client' = client]_vars

\* After the write of the key failed, a command has been dispatched on the new
\* session, which is still held.
C16_Witness ==
    /\ KeyWriteFailed(ops)
    /\ spc = "loop"
    /\ client # None
    /\ calls # <<>>
    /\ Last(calls).sid = client.val.sid
    /\ Last(calls).cmd = deqCount
    /\ Last(ops) = "set_mute"

\* ---------------------------------------------------------------- C17

\* No address resolution of the current outer iteration returned nothing and no
\* connect call of it failed.
ResolvesAndConnects == "resolve_none" \notin Range(ops) /\ ~ConnectFailed(ops)

\* An address resolution has just been attempted.
ResolutionAttempted == ops \in {<<"resolve_some">>, <<"resolve_none">>}

\* Whenever no session is held, one is held later.
Recovers == [](client = None => <>(client # None))

\* Again and again a session is held or an address resolution is attempted.
KeepsResolving == []<>(client # None \/ ResolutionAttempted)

C18_Delivery ==
    (homeDir /\ ~Running) =>
        /\ ipc # "send"
        /\ queue = <<>>
        /\ deqCount = readCount

\* What holds of delivery in a build without overflow checks: a command at the
\* send is enqueued, and again and again everything read has been dequeued.
C18_DeliveryWithoutPanic ==
    (homeDir /\ ~overflowChecks) =>
        /\ [](ipc = "send" => <>(ipc # "send"))
        /\ []<>(deqCount = readCount)

\* ---------------------------------------------------------------- C19

\* The connection step of the current outer iteration ended without a session:
\* the address did not resolve or the connect call failed.
NoSessionIteration(o) == Unresolved(o) \/ ConnectFailed(o)

\* Requests to the TV, as operations.
RequestOps == {"get_volume_ok", "get_volume_err", "set_volume", "set_mute"}

\* In the operations o every successful connect comes before the dequeue.
ConnectBeforeDequeue(o) ==
    \A i, j \in DOMAIN o : (o[i] = "connect_ok" /\ o[j] = "recv_cmd") => i < j

====
